---- MODULE Spec2Model ----
(***************************************************************************)
(* Model of homework.py: a bot that polls the homework-status API and      *)
(* relays status changes and failures to one Telegram chat.                *)
(*                                                                         *)
(* Python values are modelled as follows.                                  *)
(*   - None, where a string is expected, is the string NONE.               *)
(*   - A text built by an f-string is the sequence of its fragments; the   *)
(*     absent/falsy message (None) is the empty sequence NoMessage.        *)
(*   - A JSON scalar is a record [t, v]: t is its type, v its value when   *)
(*     it is an integer (0 otherwise).                                     *)
(*   - A JSON object is a record that carries the set `keys` of the keys   *)
(*     present; the fields of absent keys hold placeholders that are       *)
(*     never read (Get returns the default for them).                      *)
(* Russian message texts are transliterated to ASCII.                      *)
(***************************************************************************)
EXTENDS Integers, Sequences, FiniteSets, TLC

VARIABLES
    tokens,              \* PRACTICUM_TOKEN, TELEGRAM_TOKEN, TELEGRAM_CHAT_ID
    pc,                  \* position of main()
    timestamp,           \* main(): the poll cursor
    last_error_message,  \* main(): last reported error text
    response,            \* main(): value returned by get_api_answer
    homeworks,           \* main(): value returned by check_response
    idx,                 \* main(): position of the for loop in homeworks
    exc,                 \* the exception being handled in this cycle
    from_date,           \* the from_date parameter of this cycle's request
    calls,               \* bot.send_message calls of this cycle, in order
    outcome,             \* history: how this cycle ended
    prev,                \* history: how the previous cycle ended
    last_failed_error,   \* history: error text of the latest failing cycle
    run_sent,            \* history: failure relays in the current run
    last_success_date,   \* history: current_date of the latest full success
    cls,                 \* history: the failure condition of this cycle
    prev_cls,            \* history: the failure condition of the previous cycle
    run_undelivered,     \* history: a relay of the current run was not delivered
    track                \* whether cls, prev_cls, run_undelivered are recorded

vars == <<track, tokens, pc, timestamp, last_error_message, response, homeworks, idx,
          exc, from_date, calls, outcome, prev, last_failed_error, run_sent,
          last_success_date, cls, prev_cls, run_undelivered>>

hist == <<cls, prev_cls, run_undelivered>>

(***************************************************************************)
(* Bounds of the model.                                                    *)
(***************************************************************************)
MaxHomeworks == 2    \* longest homeworks list the API returns
MaxDate == 1         \* integer dates range over 0..MaxDate
MaxRunSent == 2      \* run_sent saturates here
MaxLiveHomeworks == 1  \* longest homeworks list under FairSpec

(***************************************************************************)
(* Values.                                                                 *)
(***************************************************************************)
NONE == "None"
NoMessage == <<>>

JInt(n) == [t |-> "int", v |-> n]
JNull == [t |-> "null", v |-> 0]
Dates == {JInt(n) : n \in 0..MaxDate} \cup {JNull}

\* int(time.time()) at start-up
StartTime == JInt(1)

TokenValues == {NONE, "", "token"}
TokenNames == {"PRACTICUM_TOKEN", "TELEGRAM_TOKEN", "TELEGRAM_CHAT_ID"}

RETRY_PERIOD == 600

HOMEWORK_VERDICTS ==
    [approved |-> "Rabota proverena: revyueru vsyo ponravilos. Ura!",
     reviewing |-> "Rabota vzyata na proverku revyuerom.",
     rejected |-> "Rabota proverena: u revyuera est zamechaniya."]

HTTP_OK == 200

(***************************************************************************)
(* The homework records and responses the API may return.                  *)
(***************************************************************************)
Names == {"hw1", "hw2"}

Dict(name, status) ==
    [t |-> "dict",
     keys |-> {k \in {"homework_name", "status"} :
                  \/ k = "homework_name" /\ name # NONE
                  \/ k = "status" /\ status # NONE},
     homework_name |-> name,
     status |-> status]

\* a JSON string in place of a homework object
NotADict == [t |-> "str", keys |-> {}, homework_name |-> NONE, status |-> NONE]

HomeworkRecords ==
    {Dict(n, s) : n \in Names, s \in DOMAIN HOMEWORK_VERDICTS}
    \cup {Dict(NONE, NONE),          \* {}
          Dict(NONE, "approved"),    \* no homework_name
          Dict("hw1", "unknown"),    \* status outside the verdicts
          Dict("hw1", NONE),         \* no status
          NotADict}

SeqUpTo(S, n) == UNION {[1..k -> S] : k \in 0..n}

JList(items) == [t |-> "list", items |-> items]
NotAList == [t |-> "str", items |-> <<>>]

HomeworksValues(n) ==
    {JList(s) : s \in SeqUpTo(HomeworkRecords, n)} \cup {NotAList}

ResponseKeys == {"homeworks", "current_date"}

Body(keys, hws, date) ==
    [t |-> "dict", keys |-> keys, homeworks |-> hws, current_date |-> date]

\* {} : what get_api_answer returns after a transport failure
EmptyDict == Body({}, NotAList, JNull)

\* a JSON array in place of the response object
NotAResponse == [t |-> "list", keys |-> {}, homeworks |-> NotAList,
                 current_date |-> JNull]

\* the decoded bodies with homeworks lists of at most n records
Bodies(n) ==
    {Body(ResponseKeys, h, d) : h \in HomeworksValues(n), d \in Dates}
    \cup {Body({"homeworks"}, h, JNull) : h \in HomeworksValues(n)}
    \cup {Body({"current_date"}, NotAList, d) : d \in Dates}
    \cup {EmptyDict, NotAResponse}

\* dict.get(key, default)
Get(d, key, default) == IF key \in d.keys THEN d[key] ELSE default

(***************************************************************************)
(* Results of calls: a returned value or a raised exception.               *)
(***************************************************************************)
\* str(e) is exc.msg, a text (the empty text for an exception without arguments)
NoExc == [type |-> NONE, msg |-> <<>>]
Exc(type, msg) == [type |-> type, msg |-> msg]
Return(v) == [raised |-> FALSE, exc |-> NoExc, value |-> v]
Raise(e, v) == [raised |-> TRUE, exc |-> e, value |-> v]

(***************************************************************************)
(* check_tokens                                                            *)
(***************************************************************************)
\* `not token`: None and the empty string are falsy
Falsy(token) == token = NONE \/ token = ""

\* variant: the chat identifier is not checked
check_tokens_two(toks) ==
    \A name \in {"PRACTICUM_TOKEN", "TELEGRAM_TOKEN"} : ~Falsy(toks[name])

check_tokens(toks) == \A name \in TokenNames : ~Falsy(toks[name])

(***************************************************************************)
(* send_message: bot.send_message is called; any exception it raises is    *)
(* caught and logged. `delivered` is the outcome of the call. The result   *)
(* is the log of calls and whether send_message itself raised.             *)
(***************************************************************************)
Call(kind, text, delivered) ==
    [kind |-> kind, text |-> text, delivered |-> delivered]

\* variant: the exception of bot.send_message is not caught
send_message_uncaught(log, kind, message, delivered) ==
    [raised |-> ~delivered,
     calls |-> Append(log, Call(kind, message, delivered))]

send_message(log, kind, message, delivered) ==
    [raised |-> FALSE, calls |-> Append(log, Call(kind, message, delivered))]

(***************************************************************************)
(* get_api_answer: `reply` is what requests.get does for this request.     *)
(***************************************************************************)
StatusCodes == {HTTP_OK, 404}

Transport == [kind |-> "transport", status |-> 0, json |-> FALSE,
              body |-> EmptyDict]
Reply(status, json, body) ==
    [kind |-> "reply", status |-> status, json |-> json, body |-> body]

RepliesUpTo(n) ==
    {Transport}
    \cup {Reply(s, FALSE, EmptyDict) : s \in StatusCodes}
    \cup {Reply(s, TRUE, EmptyDict) : s \in StatusCodes \ {HTTP_OK}}
    \cup {Reply(HTTP_OK, TRUE, b) : b \in Bodies(n)}

Replies == RepliesUpTo(MaxHomeworks)
LiveReplies == RepliesUpTo(MaxLiveHomeworks)

HTTPErrorText(status) ==
    <<"Oshibka HTTP: status-kod - ", ToString(status),
      ". Ozhidalsya status: ", ToString(HTTP_OK)>>

JSONErrorText == <<"Oshibka dekodirovaniya JSON iz otveta API">>

get_api_answer(reply) ==
    IF reply.kind = "transport"
    THEN Return(EmptyDict)
    ELSE IF reply.status # HTTP_OK
         THEN Raise(Exc("HTTPError", HTTPErrorText(reply.status)), EmptyDict)
         ELSE IF ~reply.json
              THEN Raise(Exc("ValueError", JSONErrorText), EmptyDict)
              ELSE Return(reply.body)

(***************************************************************************)
(* check_response                                                          *)
(***************************************************************************)
\* variant: only the homeworks key is required
check_response_homeworks_only(resp) ==
    IF resp.t # "dict"
    THEN Raise(Exc("TypeError", <<>>), <<>>)
    ELSE IF "homeworks" \notin resp.keys
         THEN Raise(Exc("KeyError", <<>>), <<>>)
         ELSE IF resp.homeworks.t # "list"
              THEN Raise(Exc("TypeError", <<>>), <<>>)
              ELSE IF resp.homeworks.items = <<>>
                   THEN Raise(Exc("ValueError", <<>>), <<>>)
                   ELSE Return(resp.homeworks.items)

\* variant: an empty homeworks list passes
check_response_empty_ok(resp) ==
    IF resp.t # "dict"
    THEN Raise(Exc("TypeError", <<>>), <<>>)
    ELSE IF \E key \in ResponseKeys : key \notin resp.keys
         THEN Raise(Exc("KeyError", <<>>), <<>>)
         ELSE IF resp.homeworks.t # "list"
              THEN Raise(Exc("TypeError", <<>>), <<>>)
              ELSE Return(resp.homeworks.items)

check_response(resp) ==
    IF resp.t # "dict"
    THEN Raise(Exc("TypeError", <<>>), <<>>)
    ELSE IF \E key \in ResponseKeys : key \notin resp.keys
         THEN Raise(Exc("KeyError", <<>>), <<>>)
         ELSE IF resp.homeworks.t # "list"
              THEN Raise(Exc("TypeError", <<>>), <<>>)
              ELSE IF resp.homeworks.items = <<>>
                   THEN Raise(Exc("ValueError", <<>>), <<>>)
                   ELSE Return(resp.homeworks.items)

(***************************************************************************)
(* parse_status                                                            *)
(***************************************************************************)
\* variant: an empty record is not told apart
FalsyHomework_never(homework) == FALSE

\* `not homework`: the empty dict is falsy, a non-empty string is not
FalsyHomework(homework) == homework.t = "dict" /\ homework.keys = {}

\* variant: the homework name is left out of the text
StatusText_noname(homework_name, verdict) ==
    <<"Izmenilsya status proverki raboty. ", verdict>>

StatusText(homework_name, verdict) ==
    <<"Izmenilsya status proverki raboty \"", homework_name, "\". ", verdict>>

\* variant: an unknown status is looked up with .get and formatted as None
parse_status_blank(homework) ==
    IF FalsyHomework(homework)
    THEN Return(NoMessage)
    ELSE IF homework.t # "dict"
         THEN Raise(Exc("AttributeError",
                        <<"'str' object has no attribute 'get'">>), NoMessage)
         ELSE LET homework_name == Get(homework, "homework_name", NONE)
                  homework_status == Get(homework, "status", NONE)
              IN IF homework_name = NONE
                 THEN Raise(Exc("KeyError", <<>>), NoMessage)
                 ELSE Return(StatusText(homework_name,
                        IF homework_status \in DOMAIN HOMEWORK_VERDICTS
                        THEN HOMEWORK_VERDICTS[homework_status]
                        ELSE NONE))

parse_status(homework) ==
    IF FalsyHomework(homework)
    THEN Return(NoMessage)
    ELSE IF homework.t # "dict"
         THEN Raise(Exc("AttributeError",
                        <<"'str' object has no attribute 'get'">>), NoMessage)
         ELSE LET homework_name == Get(homework, "homework_name", NONE)
                  homework_status == Get(homework, "status", NONE)
              IN IF \/ homework_name = NONE
                    \/ homework_status \notin DOMAIN HOMEWORK_VERDICTS
                 THEN Raise(Exc("KeyError", <<>>), NoMessage)
                 ELSE Return(StatusText(homework_name,
                                        HOMEWORK_VERDICTS[homework_status]))

(***************************************************************************)
(* main                                                                    *)
(***************************************************************************)
NoResponse == EmptyDict
NoDate == JNull

\* f'Sboy v rabote programmy: {e}'
ErrorText(e) == <<"Sboy v rabote programmy: ">> \o e.msg

\* variant: the cursor is never moved
NextTimestamp_stale(resp, ts) == ts

\* response.get('current_date', timestamp)
NextTimestamp(resp, ts) == Get(resp, "current_date", ts)

\* variant: every failure is reported
IsNewError_always(error_message, last) == TRUE

\* variant: no failure is reported
IsNewError_never(error_message, last) == FALSE

\* error_message != last_error_message
IsNewError(error_message, last) == error_message # last

\* variant: a successful cycle keeps the last error
ClearedError_kept(last) == last

\* last_error_message = None
ClearedError(last) == NoMessage

\* variant: the error is remembered only when its relay was delivered
RememberedError_if_delivered(error_message, last, delivered) ==
    IF delivered THEN error_message ELSE last

\* last_error_message = error_message, after send_message has returned
RememberedError(error_message, last, delivered) == error_message

Inc(n) == IF n < MaxRunSent THEN n + 1 ELSE n

\* a value of the recorded history; "none" when nothing is recorded
Recorded(c) == IF track THEN c ELSE "none"

\* the failure condition a reply puts the fetch in
FetchClass(reply) ==
    IF reply.kind = "transport" THEN "transport"
    ELSE IF reply.status # HTTP_OK THEN "http"
         ELSE IF ~reply.json THEN "decode" ELSE "none"

\* the failure condition check_response reports for a response it rejects
ShapeClass(resp) ==
    IF resp.t # "dict" THEN "wrong_type"
    ELSE IF \E key \in ResponseKeys : key \notin resp.keys
         THEN "missing_key"
         ELSE IF resp.homeworks.t # "list" THEN "wrong_type"
              ELSE "empty_list"

Init ==
    /\ tokens \in [TokenNames -> TokenValues]
    /\ pc = "start"
    /\ timestamp = NoDate
    /\ last_error_message = NoMessage
    /\ response = NoResponse
    /\ homeworks = <<>>
    /\ idx = 0
    /\ exc = NoExc
    /\ from_date = NoDate
    /\ calls = <<>>
    /\ outcome = "none"
    /\ prev = "none"
    /\ last_failed_error = NoMessage
    /\ run_sent = 0
    /\ last_success_date = StartTime
    /\ cls = "none"
    /\ prev_cls = "none"
    /\ run_undelivered = FALSE
    /\ track = FALSE

\* TeleBot(token=TELEGRAM_TOKEN); timestamp = int(time.time()).
\* The constructor validates the token and may raise for a token that is
\* not a well-formed bot token; the exception leaves main().
CreateBot ==
    /\ pc = "start"
    /\ \/ /\ pc' = "check_tokens"
          /\ timestamp' = StartTime
       \/ /\ pc' = "crashed"
          /\ UNCHANGED timestamp
    /\ UNCHANGED <<track, tokens, last_error_message, response, homeworks, idx, exc,
                   from_date, calls, outcome, prev, last_failed_error,
                   run_sent, last_success_date, hist>>

\* token_availability = check_tokens(); return if it is False
CheckTokens ==
    /\ pc = "check_tokens"
    /\ IF check_tokens(tokens)
       THEN /\ pc' = "fetch"
            /\ last_error_message' = NoMessage
       ELSE /\ pc' = "exit"
            /\ UNCHANGED last_error_message
    /\ UNCHANGED <<track, tokens, timestamp, response, homeworks, idx, exc,
                   from_date, calls, outcome, prev, last_failed_error,
                   run_sent, last_success_date, hist>>

\* response = get_api_answer(timestamp), the API answering with one of
\* `replies`
GetApiAnswerFrom(replies) ==
    /\ pc = "fetch"
    /\ \E reply \in replies :
         LET r == get_api_answer(reply)
         IN /\ from_date' = timestamp
            /\ cls' = Recorded(FetchClass(reply))
            /\ IF r.raised
               THEN /\ exc' = r.exc
                    /\ pc' = "except"
                    /\ UNCHANGED response
               ELSE /\ response' = r.value
                    /\ pc' = "validate"
                    /\ UNCHANGED exc
    /\ UNCHANGED <<track, tokens, timestamp, last_error_message, homeworks, idx,
                   calls, outcome, prev, last_failed_error, run_sent,
                   last_success_date, prev_cls, run_undelivered>>

GetApiAnswer == GetApiAnswerFrom(Replies)

GetApiAnswerLive == GetApiAnswerFrom(LiveReplies)

\* homeworks = check_response(response)
CheckResponse ==
    /\ pc = "validate"
    /\ LET r == check_response(response)
       IN IF r.raised
          THEN /\ exc' = r.exc
               /\ pc' = "except"
               /\ cls' = IF cls = "transport" THEN cls
                         ELSE Recorded(ShapeClass(response))
               /\ UNCHANGED <<homeworks, idx>>
          ELSE /\ homeworks' = r.value
               /\ idx' = 1
               /\ pc' = "notify"
               /\ UNCHANGED <<exc, cls>>
    /\ UNCHANGED <<track, tokens, timestamp, last_error_message, response,
                   from_date, calls, outcome, prev, last_failed_error,
                   run_sent, last_success_date, prev_cls, run_undelivered>>

\* variant: the cursor is moved inside the for loop
Notify_early ==
    /\ pc = "notify"
    /\ idx <= Len(homeworks)
    /\ LET r == parse_status(homeworks[idx])
       IN IF r.raised
          THEN /\ exc' = r.exc
               /\ pc' = "except"
               /\ cls' = Recorded("bad_record")
               /\ UNCHANGED <<idx, calls, timestamp>>
          ELSE /\ timestamp' = NextTimestamp(response, timestamp)
               /\ idx' = idx + 1
               /\ UNCHANGED <<pc, exc, cls>>
               /\ IF r.value = NoMessage
                  THEN UNCHANGED calls
                  ELSE \E delivered \in BOOLEAN :
                         calls' = send_message(calls, "homework", r.value,
                                               delivered).calls
    /\ UNCHANGED <<track, tokens, last_error_message, response,
                   homeworks, from_date, outcome, prev, last_failed_error,
                   run_sent, last_success_date, prev_cls, run_undelivered>>

\* one iteration of `for homework in homeworks`
Notify ==
    /\ pc = "notify"
    /\ idx <= Len(homeworks)
    /\ LET r == parse_status(homeworks[idx])
       IN IF r.raised
          THEN /\ exc' = r.exc
               /\ pc' = "except"
               /\ cls' = Recorded("bad_record")
               /\ UNCHANGED <<idx, calls>>
          ELSE IF r.value = NoMessage
               THEN /\ idx' = idx + 1
                    /\ UNCHANGED <<pc, exc, calls, cls>>
               ELSE \E delivered \in BOOLEAN :
                      LET s == send_message(calls, "homework", r.value,
                                            delivered)
                      IN /\ calls' = s.calls
                         /\ IF s.raised
                            THEN /\ exc' = Exc("ApiException", <<"send">>)
                                 /\ pc' = "except"
                                 /\ cls' = Recorded("delivery")
                                 /\ UNCHANGED idx
                            ELSE /\ idx' = idx + 1
                                 /\ UNCHANGED <<pc, exc, cls>>
    /\ UNCHANGED <<track, tokens, timestamp, last_error_message, response,
                   homeworks, from_date, outcome, prev, last_failed_error,
                   run_sent, last_success_date, prev_cls, run_undelivered>>

\* after the for loop: the cursor moves, the last error is forgotten
Advance ==
    /\ pc = "notify"
    /\ idx > Len(homeworks)
    /\ timestamp' = NextTimestamp(response, timestamp)
    /\ last_error_message' = ClearedError(last_error_message)
    /\ pc' = "sleep"
    /\ outcome' = "ok"
    /\ run_sent' = 0
    /\ last_success_date' = response.current_date
    /\ run_undelivered' = FALSE
    /\ UNCHANGED <<track, tokens, response, homeworks, idx, exc, from_date, calls,
                   prev, last_failed_error, cls, prev_cls>>

\* except Exception as e
HandleException ==
    /\ pc = "except"
    /\ LET error_message == ErrorText(exc)
           same_run == prev = "failed" /\ last_failed_error = error_message
           base == IF same_run THEN run_sent ELSE 0
           undelivered == same_run /\ run_undelivered
           failed(delivered) == track /\ ~delivered
       IN /\ IF IsNewError(error_message, last_error_message)
             THEN \E delivered \in BOOLEAN :
                    LET s == send_message(calls, "failure", error_message,
                                          delivered)
                    IN /\ calls' = s.calls
                       /\ run_sent' = Inc(base)
                       /\ run_undelivered' =
                            (undelivered \/ failed(delivered))
                       /\ IF s.raised
                          THEN /\ pc' = "crashed"
                               /\ UNCHANGED last_error_message
                          ELSE /\ pc' = "sleep"
                               /\ last_error_message' =
                                    RememberedError(error_message,
                                                    last_error_message,
                                                    delivered)
             ELSE /\ pc' = "sleep"
                  /\ run_sent' = base
                  /\ run_undelivered' = undelivered
                  /\ UNCHANGED <<calls, last_error_message>>
          /\ outcome' = "failed"
    /\ UNCHANGED <<track, tokens, timestamp, response, homeworks, idx, exc,
                   from_date, prev, last_failed_error, last_success_date,
                   cls, prev_cls>>

\* time.sleep(RETRY_PERIOD); the next cycle starts with fresh locals
Sleep ==
    /\ pc = "sleep"
    /\ pc' = "fetch"
    /\ prev' = outcome
    /\ last_failed_error' =
         IF outcome = "failed" THEN ErrorText(exc) ELSE last_failed_error
    /\ outcome' = "none"
    /\ response' = NoResponse
    /\ homeworks' = <<>>
    /\ idx' = 0
    /\ exc' = NoExc
    /\ from_date' = NoDate
    /\ calls' = <<>>
    /\ prev_cls' = cls
    /\ cls' = "none"
    /\ UNCHANGED <<track, tokens, timestamp, last_error_message, run_sent,
                   last_success_date, run_undelivered>>

Next ==
    \/ CreateBot
    \/ CheckTokens
    \/ GetApiAnswer
    \/ CheckResponse
    \/ Notify
    \/ Advance
    \/ HandleException
    \/ Sleep

Spec == Init /\ [][Next]_vars

\* The same program against an API whose lists have at most
\* MaxLiveHomeworks records. The loop is sequential and every call in it
\* returns: a step that can be taken is taken.
NextLive ==
    \/ CreateBot
    \/ CheckTokens
    \/ GetApiAnswerLive
    \/ CheckResponse
    \/ Notify
    \/ Advance
    \/ HandleException
    \/ Sleep

FairSpec == Init /\ [][NextLive]_vars /\ WF_vars(NextLive)

\* The program of Spec with the failure conditions of the cycles and the
\* delivery of the relays recorded in cls, prev_cls, run_undelivered.
InitRecorded ==
    /\ tokens \in [TokenNames -> TokenValues]
    /\ pc = "start"
    /\ timestamp = NoDate
    /\ last_error_message = NoMessage
    /\ response = NoResponse
    /\ homeworks = <<>>
    /\ idx = 0
    /\ exc = NoExc
    /\ from_date = NoDate
    /\ calls = <<>>
    /\ outcome = "none"
    /\ prev = "none"
    /\ last_failed_error = NoMessage
    /\ run_sent = 0
    /\ last_success_date = StartTime
    /\ cls = "none"
    /\ prev_cls = "none"
    /\ run_undelivered = FALSE
    /\ track = TRUE

HistSpec == InitRecorded /\ [][Next]_vars

(***************************************************************************)
(* Vocabulary of the properties.                                           *)
(***************************************************************************)
FailureCalls == SelectSeq(calls, LAMBDA c : c.kind = "failure")
HomeworkCalls == SelectSeq(calls, LAMBDA c : c.kind = "homework")

Contains(text, fragment) == \E k \in DOMAIN text : text[k] = fragment

\* the previous cycle failed with the error text of this cycle
SameAsPrevious == prev = "failed" /\ last_failed_error = ErrorText(exc)

InLoop == pc \in {"fetch", "validate", "notify", "except", "sleep"}

ValidRecord(h) ==
    /\ h.t = "dict"
    /\ {"homework_name", "status"} \subseteq h.keys
    /\ h.status \in {"approved", "reviewing", "rejected"}

\* the response fails one of the checks of the response validation
InvalidShape(resp) ==
    \/ resp.t # "dict"
    \/ "homeworks" \notin resp.keys
    \/ "current_date" \notin resp.keys
    \/ resp.homeworks.t # "list"
    \/ resp.homeworks.items = <<>>

\* a well-formed response whose records are all valid
WellFormed(resp) ==
    /\ ~InvalidShape(resp)
    /\ \A i \in DOMAIN resp.homeworks.items :
         ValidRecord(resp.homeworks.items[i])

\* a non-empty record whose status is missing or outside the verdicts
BadStatus(h) ==
    /\ h.t = "dict"
    /\ h.keys # {}
    /\ Get(h, "status", NONE) \notin {"approved", "reviewing", "rejected"}

(***************************************************************************)
(* C1. Failure deduplication: at the end of a failing cycle the run of     *)
(* consecutive failing cycles with this error text has had exactly one     *)
(* failure notification, sent by the first cycle of the run: the cycle     *)
(* sends one when the previous cycle did not fail with the same text       *)
(* (a new run, also after a different error) and none otherwise.           *)
(* A notification counts as sent when bot.send_message is called.          *)
(***************************************************************************)
C1_Deduplication ==
    (pc = "sleep" /\ outcome = "failed") =>
        /\ run_sent = 1
        /\ Len(FailureCalls) = (IF SameAsPrevious THEN 0 ELSE 1)

\* the second cycle of a run: nothing is sent, the run has had one relay
C1_Witness ==
    /\ pc = "sleep"
    /\ outcome = "failed"
    /\ SameAsPrevious
    /\ calls = <<>>
    /\ run_sent = 1

(***************************************************************************)
(* C2. Deduplication reset: a failing cycle that follows a fully           *)
(* successful cycle sends a failure notification even when its error text  *)
(* is the text of the latest failing cycle before that success.            *)
(***************************************************************************)
C2_ResetAfterSuccess ==
    (/\ pc = "sleep"
     /\ outcome = "failed"
     /\ prev = "ok"
     /\ last_failed_error = ErrorText(exc)) =>
        /\ Len(FailureCalls) = 1
        /\ FailureCalls[1].text = last_failed_error

C2_Witness ==
    /\ pc = "sleep"
    /\ outcome = "failed"
    /\ prev = "ok"
    /\ last_failed_error = ErrorText(exc)
    /\ Len(FailureCalls) = 1

(***************************************************************************)
(* C3. The poll cursor never decreases: no step takes an integer cursor    *)
(* to a smaller integer.                                                   *)
(***************************************************************************)
C3_CursorNeverDecreases ==
    [][(timestamp.t = "int" /\ timestamp'.t = "int")
           => timestamp'.v >= timestamp.v]_vars

(***************************************************************************)
(* C4. Every fetch uses the current_date of the latest fully successful    *)
(* cycle, or the start-up time when there has been none.                   *)
(***************************************************************************)
C4_FetchUsesLastSuccessDate ==
    pc \in {"validate", "notify", "except"} => from_date = last_success_date

\* a fetch right after a successful cycle whose response carried date 0
C4_Witness ==
    /\ pc = "validate"
    /\ prev = "ok"
    /\ from_date = JInt(0)

(***************************************************************************)
(* C5. With a credential absent or empty, check_tokens reports failure     *)
(* and main() never enters the loop: nothing is fetched, nothing is sent.  *)
(***************************************************************************)
C5_NoLoopWithoutCredentials ==
    (\E name \in TokenNames : tokens[name] \in {NONE, ""}) =>
        /\ ~check_tokens(tokens)
        /\ ~InLoop
        /\ from_date = NoDate
        /\ calls = <<>>
        /\ prev = "none"
        /\ outcome = "none"

\* main() has returned because only the chat identifier is missing
C5_Witness ==
    /\ pc = "exit"
    /\ tokens["PRACTICUM_TOKEN"] = "token"
    /\ tokens["TELEGRAM_TOKEN"] = "token"
    /\ tokens["TELEGRAM_CHAT_ID"] = ""

(***************************************************************************)
(* C6. Inside the loop no error outcome ends the loop: every cycle         *)
(* reaches the sleep step and every sleep is followed by another fetch.    *)
(***************************************************************************)
C6_LoopNeverEnds ==
    /\ (pc = "fetch") ~> (pc = "sleep")
    /\ (pc = "sleep") ~> (pc = "fetch")

\* a fetch that follows a cycle whose failure relay was not delivered
C6_Witness ==
    /\ pc = "sleep"
    /\ outcome = "failed"
    /\ prev = "failed"
    /\ Len(calls) = 1
    /\ calls[1].kind = "failure"
    /\ ~calls[1].delivered

(***************************************************************************)
(* C7. For a well-formed response whose records are all valid the cycle    *)
(* sends exactly one notification per record, in list order, each with     *)
(* the record's homework name and the verdict text of its status.          *)
(***************************************************************************)
C7_OneNotificationPerRecord ==
    (pc = "sleep" /\ WellFormed(response)) =>
        LET items == response.homeworks.items
        IN /\ Len(calls) = Len(items)
           /\ \A i \in DOMAIN items :
                /\ calls[i].kind = "homework"
                /\ Contains(calls[i].text, items[i].homework_name)
                /\ Contains(calls[i].text, HOMEWORK_VERDICTS[items[i].status])

\* two records with different names and verdicts, both notified
C7_Witness ==
    /\ pc = "sleep"
    /\ response.homeworks.items
         = <<Dict("hw2", "approved"), Dict("hw1", "rejected")>>
    /\ Len(calls) = 2
    /\ Contains(calls[1].text, HOMEWORK_VERDICTS["approved"])
    /\ Contains(calls[2].text, "hw1")

(***************************************************************************)
(* C8. A response that fails validation sends the cycle to the failure     *)
(* branch: the records are never iterated and no homework notification     *)
(* is sent in that cycle.                                                  *)
(***************************************************************************)
C8_InvalidResponseNotNotified ==
    (pc \in {"notify", "except", "sleep"} /\ InvalidShape(response)) =>
        /\ pc # "notify"
        /\ HomeworkCalls = <<>>
        /\ pc = "sleep" => outcome = "failed"

\* a decoded response without the homeworks key, at the end of its cycle
C8_Witness ==
    /\ pc = "sleep"
    /\ response.t = "dict"
    /\ response.keys = {"current_date"}
    /\ outcome = "failed"
    /\ HomeworkCalls = <<>>

(***************************************************************************)
(* C9. A non-empty record whose status is missing or outside the verdicts  *)
(* gets no notification and the cycle takes the failure branch.            *)
(***************************************************************************)
C9_BadStatusRejected ==
    (pc = "sleep" /\ ~InvalidShape(response)) =>
        \A i \in DOMAIN response.homeworks.items :
            BadStatus(response.homeworks.items[i]) =>
                /\ outcome = "failed"
                /\ Len(HomeworkCalls) < i
                /\ \A k \in DOMAIN calls : ~Contains(calls[k].text, NONE)

\* a valid record followed by one with an unknown status
C9_Witness ==
    /\ pc = "sleep"
    /\ response.homeworks.items
         = <<Dict("hw2", "reviewing"), Dict("hw1", "unknown")>>
    /\ outcome = "failed"
    /\ exc.type = "KeyError"
    /\ Len(HomeworkCalls) = 1

(***************************************************************************)
(* C10. A homework notification that is not delivered does not abort the   *)
(* iteration: the for loop goes on to the next record, and when every      *)
(* record of the response is valid the remaining records are dispatched,   *)
(* the cursor moves to the response's current_date, the last error is      *)
(* cleared and the failure branch is not taken.                            *)
(***************************************************************************)
C10_UndeliveredDoesNotAbort ==
    (\E k \in DOMAIN calls : calls[k].kind = "homework" /\ ~calls[k].delivered)
      =>
        /\ pc = "except" =>
             /\ idx \in DOMAIN homeworks
             /\ ~ValidRecord(homeworks[idx])
        /\ (pc = "sleep" /\ WellFormed(response)) =>
             /\ outcome = "ok"
             /\ Len(HomeworkCalls) = Len(response.homeworks.items)
             /\ timestamp = response.current_date
             /\ last_error_message = NoMessage

\* the first of two notifications was not delivered, the second was sent
C10_Witness ==
    /\ pc = "sleep"
    /\ WellFormed(response)
    /\ Len(calls) = 2
    /\ ~calls[1].delivered
    /\ calls[2].delivered
    /\ timestamp = response.current_date
    /\ prev = "failed"

(***************************************************************************)
(* Vocabulary of the failure conditions.                                   *)
(***************************************************************************)
\* the failure conditions the response validation and parsing tell apart
FailureClasses ==
    {"transport", "missing_key", "wrong_type", "empty_list", "bad_record"}

\* a decoded response with both keys whose homeworks list is empty
EmptyList(resp) ==
    /\ resp.t = "dict"
    /\ ResponseKeys \subseteq resp.keys
    /\ resp.homeworks.t = "list"
    /\ resp.homeworks.items = <<>>

EmptyRecord(h) == h.t = "dict" /\ h.keys = {}

(***************************************************************************)
(* C11. Failing cycles whose failure conditions differ in class are not    *)
(* deduplicated: a failing cycle whose class differs from the class of     *)
(* the failing cycle before it sends a failure notification.               *)
(***************************************************************************)
C11_ClassChangeRelayed ==
    (/\ pc = "sleep"
     /\ outcome = "failed"
     /\ prev = "failed"
     /\ cls \in FailureClasses
     /\ prev_cls \in FailureClasses
     /\ cls # prev_cls) =>
        Len(FailureCalls) = 1

(***************************************************************************)
(* C12. A cycle that takes the failure branch leaves the cursor alone:     *)
(* the next fetch uses the from_date of the failed cycle's fetch.          *)
(***************************************************************************)
C12_FailureKeepsCursor ==
    (pc = "except" \/ (pc = "sleep" /\ outcome = "failed")) =>
        timestamp = from_date

\* a record failed after one was notified; the response's date is not taken
C12_Witness ==
    /\ pc = "sleep"
    /\ outcome = "failed"
    /\ ~InvalidShape(response)
    /\ HomeworkCalls # <<>>
    /\ from_date = JInt(0)
    /\ response.current_date = JInt(1)
    /\ timestamp = JInt(0)

(***************************************************************************)
(* C13. At every sleep step last_error_message is None exactly when the    *)
(* cycle was fully successful; after a failing cycle it is that cycle's    *)
(* error text.                                                             *)
(***************************************************************************)
C13_LastErrorAtSleep ==
    pc = "sleep" =>
        /\ outcome = "ok" <=> last_error_message = NoMessage
        /\ outcome = "failed" => last_error_message = ErrorText(exc)

\* a successful cycle after a failing one: the last error is cleared
C13_Witness ==
    /\ pc = "sleep"
    /\ outcome = "ok"
    /\ prev = "failed"
    /\ last_failed_error # NoMessage
    /\ last_error_message = NoMessage

(***************************************************************************)
(* C14 as claimed. A homeworks list with an empty record makes the cycle   *)
(* fail: failure branch, cursor not advanced, last error not cleared.      *)
(***************************************************************************)
C14_EmptyRecordFails ==
    (/\ pc = "sleep"
     /\ ~InvalidShape(response)
     /\ \E i \in DOMAIN response.homeworks.items :
          EmptyRecord(response.homeworks.items[i])) =>
        /\ outcome = "failed"
        /\ timestamp = from_date
        /\ last_error_message # NoMessage

(***************************************************************************)
(* C14 as amended. An empty record is skipped: nothing is sent for it,     *)
(* and a list whose other records are valid gives a fully successful       *)
(* cycle with one notification per valid record, the cursor at the         *)
(* response's current_date and the last error cleared.                     *)
(***************************************************************************)
C14_EmptyRecordSkipped ==
    LET items == response.homeworks.items
    IN (/\ pc = "sleep"
        /\ ~InvalidShape(response)
        /\ \E i \in DOMAIN items : EmptyRecord(items[i])
        /\ \A i \in DOMAIN items :
             EmptyRecord(items[i]) \/ ValidRecord(items[i])) =>
           /\ outcome = "ok"
           /\ timestamp = response.current_date
           /\ last_error_message = NoMessage
           /\ FailureCalls = <<>>
           /\ Len(calls)
                = Cardinality({i \in DOMAIN items : ValidRecord(items[i])})

\* an empty record followed by a valid one: one notification, success
C14_Witness ==
    /\ pc = "sleep"
    /\ response.homeworks.items = <<Dict(NONE, NONE), Dict("hw1", "approved")>>
    /\ outcome = "ok"
    /\ Len(calls) = 1
    /\ Contains(calls[1].text, "hw1")

(***************************************************************************)
(* C15. The steps of a cycle come in the order fetch, validate, notify,    *)
(* sleep: a homework notification is dispatched only for a response that   *)
(* passed validation, the for loop is entered only from the validation,    *)
(* the cursor changes only after the last record, and between two fetches  *)
(* there is exactly one sleep, whatever the outcome.                       *)
(***************************************************************************)
C15_StepOrder ==
    /\ [](HomeworkCalls # <<>> =>
            /\ pc \in {"notify", "except", "sleep"}
            /\ ~InvalidShape(response))
    /\ [][(pc' = "notify" /\ pc # "notify") => pc = "validate"]_vars
    /\ [][(InLoop /\ timestamp' # timestamp) =>
            /\ pc = "notify"
            /\ idx > Len(homeworks)
            /\ pc' = "sleep"]_vars
    /\ [][pc = "fetch" => pc' \in {"validate", "except"}]_vars
    /\ [][(pc' = "fetch" /\ pc # "fetch") =>
            pc \in {"sleep", "check_tokens"}]_vars
    /\ [][pc = "sleep" => pc' = "fetch"]_vars

\* the second successful cycle in a row, with two records dispatched and
\* the cursor moved at its end
C15_Witness ==
    /\ pc = "sleep"
    /\ outcome = "ok"
    /\ prev = "ok"
    /\ Len(HomeworkCalls) = 2
    /\ timestamp # from_date

(***************************************************************************)
(* C16. A well-formed response with an empty homeworks list is an error    *)
(* cycle: the failure branch is taken, the cursor is not advanced, and a   *)
(* run of consecutive empty-list responses has exactly one failure         *)
(* notification (its first cycle sends one, the others none).              *)
(***************************************************************************)
C16_EmptyListRun ==
    (pc = "sleep" /\ EmptyList(response)) =>
        /\ outcome = "failed"
        /\ timestamp = from_date
        /\ Len(FailureCalls)
             = (IF prev = "failed" /\ prev_cls = "empty_list" THEN 0 ELSE 1)

(***************************************************************************)
(* C17. The poll cursor is an integer whenever the loop runs.              *)
(***************************************************************************)
C17_CursorIsInteger == InLoop => timestamp.t = "int"

(***************************************************************************)
(* C18. A transport failure of the fetch makes the cycle fail: no usable   *)
(* response, no homework notification, the cursor unchanged, and a         *)
(* failure notification unless the previous cycle failed with the same     *)
(* text.                                                                   *)
(***************************************************************************)
C18_TransportFailure ==
    cls = "transport" =>
        /\ response = EmptyDict
        /\ HomeworkCalls = <<>>
        /\ timestamp = from_date
        /\ pc \in {"validate", "except", "sleep"}
        /\ pc = "sleep" =>
             /\ outcome = "failed"
             /\ Len(FailureCalls) = (IF SameAsPrevious THEN 0 ELSE 1)

\* a transport failure after a successful cycle, relayed
C18_Witness ==
    /\ pc = "sleep"
    /\ cls = "transport"
    /\ prev = "ok"
    /\ Len(FailureCalls) = 1

(***************************************************************************)
(* C19. All-or-nothing cycle: a cycle that takes the failure branch has    *)
(* dispatched no homework notification; a cycle that dispatched one ends   *)
(* with the cursor at the response's current_date.                         *)
(***************************************************************************)
C19_AllOrNothing ==
    pc = "sleep" =>
        /\ outcome = "failed" => HomeworkCalls = <<>>
        /\ HomeworkCalls # <<>> => timestamp = response.current_date

(***************************************************************************)
(* C20. The failure branch remembers the error text whether or not its     *)
(* relay was delivered: a run of identical failures with an undelivered    *)
(* relay has had one relay attempt, and the later cycles of the run make   *)
(* none.                                                                   *)
(***************************************************************************)
C20_OneAttemptPerRun ==
    (pc = "sleep" /\ outcome = "failed" /\ run_undelivered) =>
        /\ last_error_message = ErrorText(exc)
        /\ run_sent = 1
        /\ SameAsPrevious => FailureCalls = <<>>

\* the second cycle of a run whose only relay was not delivered
C20_Witness ==
    /\ pc = "sleep"
    /\ outcome = "failed"
    /\ SameAsPrevious
    /\ run_undelivered
    /\ run_sent = 1
    /\ FailureCalls = <<>>

====
